---- MODULE Spec2Model ----
(***************************************************************************)
(* Conversion between Clifford circuits and Clifford tableaux              *)
(* (tket/src/Converters/CliffTableauConverters.cpp):                       *)
(*   circuit_to_tableau : folds a gate sequence into a tableau             *)
(*   tableau_to_circuit : Aaronson-Gottesman canonical-form synthesis      *)
(* Bits are 0/1 integers, XOR is addition modulo 2.  A matrix m is a       *)
(* function of rows, m[r][c]; rows and columns are indexed 0..size-1.      *)
(***************************************************************************)
EXTENDS Integers, Sequences, FiniteSets, TLC

\* ------------------------------------------------------------------ bounds
\* the largest number of qubits of a circuit
MaxQubits == 2

\* the largest number of commands of an input circuit
MaxGates == 2

\* ------------------------------------------------------- GF(2) primitives
Idx(n) == 0 .. (n - 1)

XOR(a, b) == (a + b) % 2

AND(a, b) == a * b

NOT(a) == 1 - a

Zero(n) == [r \in Idx(n) |-> [k \in Idx(n) |-> 0]]

Identity(n) == [r \in Idx(n) |-> [k \in Idx(n) |-> IF r = k THEN 1 ELSE 0]]

ZeroVec(n) == [r \in Idx(n) |-> 0]

\* column `dst` ^= column `src`
ColXor(m, n, dst, src) ==
    [r \in Idx(n) |-> [m[r] EXCEPT ![dst] = XOR(m[r][dst], m[r][src])]]

\* m.col(k) = v
SetCol(m, n, k, v) == [r \in Idx(n) |-> [m[r] EXCEPT ![k] = v[r]]]

Col(m, n, k) == [r \in Idx(n) |-> m[r][k]]

\* ------------------------------------------------------ the tableau state
(* CliffTableau: xpauli_* rows are the images of X_i (destabilizers),      *)
(* zpauli_* rows are the images of Z_i (stabilizers); qubits_ is the       *)
(* label <-> index bijection, kept as the sequence index+1 |-> label.      *)
CliffTableau(qbs) ==
    LET n == Len(qbs) IN
    [ size_ |-> n,
      xpauli_x |-> Identity(n), xpauli_z |-> Zero(n), xpauli_phase |-> ZeroVec(n),
      zpauli_x |-> Zero(n), zpauli_z |-> Identity(n), zpauli_phase |-> ZeroVec(n),
      qubits_ |-> qbs ]

\* column dst of m ^= column src of w
ColXorFrom(m, w, n, dst, src) ==
    [r \in Idx(n) |-> [m[r] EXCEPT ![dst] = XOR(m[r][dst], w[r][src])]]

\* ---------------------------------------------------- front applications
(* A front application multiplies the unitary on the right by the gate,    *)
(* so every generator P is conjugated on the gate's qubits: a column       *)
(* operation on all 2n rows together with a sign update.                   *)
(* apply_S_at_front(qb): P -> S^dag P S on qb: X -> -Y, Y -> X, Z -> Z.    *)
apply_S_at_front(t, qb) ==
    LET n == t.size_ IN
    [ t EXCEPT
      !.xpauli_phase = [r \in Idx(n) |->
          XOR(t.xpauli_phase[r], AND(t.xpauli_x[r][qb], NOT(t.xpauli_z[r][qb])))],
      !.xpauli_z = ColXorFrom(t.xpauli_z, t.xpauli_x, n, qb, qb),
      !.zpauli_phase = [r \in Idx(n) |->
          XOR(t.zpauli_phase[r], AND(t.zpauli_x[r][qb], NOT(t.zpauli_z[r][qb])))],
      !.zpauli_z = ColXorFrom(t.zpauli_z, t.zpauli_x, n, qb, qb) ]

(* apply_V_at_front(qb): P -> V^dag P V on qb: Z -> Y, Y -> -Z, X -> X.    *)
apply_V_at_front(t, qb) ==
    LET n == t.size_ IN
    [ t EXCEPT
      !.xpauli_phase = [r \in Idx(n) |->
          XOR(t.xpauli_phase[r], AND(t.xpauli_x[r][qb], t.xpauli_z[r][qb]))],
      !.xpauli_x = ColXorFrom(t.xpauli_x, t.xpauli_z, n, qb, qb),
      !.zpauli_phase = [r \in Idx(n) |->
          XOR(t.zpauli_phase[r], AND(t.zpauli_x[r][qb], t.zpauli_z[r][qb]))],
      !.zpauli_x = ColXorFrom(t.zpauli_x, t.zpauli_z, n, qb, qb) ]

\* sign picked up by one generator under conjugation by CX(control, target)
CXSign(x, z, control, target) ==
    AND(AND(x[control], z[target]), XOR(XOR(x[target], z[control]), 1))

(* apply_CX_at_front(control, target): P -> CX P CX:                        *)
(* x column target ^= x column control, z column control ^= z column target *)
apply_CX_at_front(t, control, target) ==
    LET n == t.size_ IN
    [ t EXCEPT
      !.xpauli_phase = [r \in Idx(n) |->
          XOR(t.xpauli_phase[r], CXSign(t.xpauli_x[r], t.xpauli_z[r], control, target))],
      !.xpauli_x = ColXor(t.xpauli_x, n, target, control),
      !.xpauli_z = ColXor(t.xpauli_z, n, control, target),
      !.zpauli_phase = [r \in Idx(n) |->
          XOR(t.zpauli_phase[r], CXSign(t.zpauli_x[r], t.zpauli_z[r], control, target))],
      !.zpauli_x = ColXor(t.zpauli_x, n, target, control),
      !.zpauli_z = ColXor(t.zpauli_z, n, control, target) ]

\* ------------------------------------------------------ end applications
(* An end application multiplies the unitary on the left by the gate, so   *)
(* the generators of the gate's qubits are replaced by products of rows.   *)
(* PauliG: the power of i produced by multiplying the one-qubit Paulis     *)
(* (x1,z1).(x2,z2), with (1,1) = Y, as a number in 0..3.                   *)
PauliG(x1, z1, x2, z2) ==
    IF x1 = 0 /\ z1 = 0 THEN 0
    ELSE IF x1 = 1 /\ z1 = 1 THEN (4 + z2 - x2) % 4
    ELSE IF x1 = 1 /\ z1 = 0 THEN (4 + z2 * (2 * x2 - 1)) % 4
    ELSE (4 + x2 * (1 - 2 * z2)) % 4

RECURSIVE SumG(_, _, _, _, _)
SumG(ax, az, bx, bz, k) ==
    IF k = 0 THEN 0
    ELSE (PauliG(ax[k - 1], az[k - 1], bx[k - 1], bz[k - 1])
            + SumG(ax, az, bx, bz, k - 1)) % 4

(* row_mult: coeff * (a . b) for two generators a, b given as [x, z, p];   *)
(* coeff is a power of i (0..3).  The sign bit of the result is the power  *)
(* of i of the product halved (the product of the calls below is always    *)
(* Hermitian, so that power is 0 or 2).                                    *)
row_mult(a, b, coeff, n) ==
    [ x |-> [k \in Idx(n) |-> XOR(a.x[k], b.x[k])],
      z |-> [k \in Idx(n) |-> XOR(a.z[k], b.z[k])],
      p |-> ((2 * a.p + 2 * b.p + coeff + SumG(a.x, a.z, b.x, b.z, n)) % 4) \div 2 ]

XRow(t, q) == [x |-> t.xpauli_x[q], z |-> t.xpauli_z[q], p |-> t.xpauli_phase[q]]

ZRow(t, q) == [x |-> t.zpauli_x[q], z |-> t.zpauli_z[q], p |-> t.zpauli_phase[q]]

SetXRow(t, q, row) ==
    [ t EXCEPT !.xpauli_x[q] = row.x, !.xpauli_z[q] = row.z, !.xpauli_phase[q] = row.p ]

SetZRow(t, q, row) ==
    [ t EXCEPT !.zpauli_x[q] = row.x, !.zpauli_z[q] = row.z, !.zpauli_phase[q] = row.p ]

\* apply_S_at_end(qb): S^dag X S = -Y = -i X Z, Z unchanged
apply_S_at_end(t, qb) ==
    SetXRow(t, qb, row_mult(XRow(t, qb), ZRow(t, qb), 3, t.size_))

\* apply_V_at_end(qb): V^dag Z V = Y = i X Z, X unchanged
apply_V_at_end(t, qb) ==
    SetZRow(t, qb, row_mult(XRow(t, qb), ZRow(t, qb), 1, t.size_))

\* apply_CX_at_end(control, target): X_c -> X_c X_t, Z_t -> Z_c Z_t
apply_CX_at_end(t, control, target) ==
    LET n == t.size_
        u == SetXRow(t, control, row_mult(XRow(t, control), XRow(t, target), 0, n))
    IN SetZRow(u, target, row_mult(ZRow(t, control), ZRow(t, target), 0, n))

\* the gate kinds
GateTypes == {"H", "S", "CX", "X", "Z", "V"}

(* apply_gate_at_end(type, qbs): X = V;V, Z = S;S, H = S;V;S               *)
apply_gate_at_end(t, type, qbs) ==
    CASE type = "S" -> apply_S_at_end(t, qbs[1])
      [] type = "V" -> apply_V_at_end(t, qbs[1])
      [] type = "Z" -> apply_S_at_end(apply_S_at_end(t, qbs[1]), qbs[1])
      [] type = "X" -> apply_V_at_end(apply_V_at_end(t, qbs[1]), qbs[1])
      [] type = "H" ->
           apply_S_at_end(apply_V_at_end(apply_S_at_end(t, qbs[1]), qbs[1]), qbs[1])
      [] type = "CX" -> apply_CX_at_end(t, qbs[1], qbs[2])

\* --------------------------------------------------- GF(2) linear algebra
RECURSIVE SetToSortedSeq(_)
SetToSortedSeq(S) ==
    IF S = {} THEN <<>>
    ELSE LET m == CHOOSE x \in S : \A y \in S : x <= y
         IN <<m>> \o SetToSortedSeq(S \ {m})

(* gaussian_elimination_col_ops(a): the ordered column operations that     *)
(* take a to the identity when a has full rank.  A pair <<f, s>> is the    *)
(* operation replayed by CX(f, s): column s ^= column f.  Row r gets its   *)
(* pivot on the diagonal from the first column >= r with a 1 in row r,     *)
(* then row r is cleared in every other column, left to right.             *)
RECURSIVE GaussRow(_, _, _, _)
GaussRow(m, n, r, ops) ==
    IF r = n THEN ops
    ELSE LET cand == {j \in r .. (n - 1) : m[r][j] = 1} IN
         IF cand = {} THEN GaussRow(m, n, r + 1, ops)
         ELSE LET j == CHOOSE x \in cand : \A y \in cand : x <= y
                  m1 == IF j = r THEN m ELSE ColXor(m, n, r, j)
                  ops1 == IF j = r THEN ops ELSE Append(ops, <<j, r>>)
                  others == {k \in Idx(n) \ {r} : m1[r][k] = 1}
                  m2 == [rr \in Idx(n) |-> [k \in Idx(n) |->
                            IF k \in others THEN XOR(m1[rr][k], m1[rr][r])
                            ELSE m1[rr][k]]]
                  oseq == SetToSortedSeq(others)
                  ops2 == ops1 \o [k \in 1 .. Len(oseq) |-> <<r, oseq[k]>>]
              IN GaussRow(m2, n, r + 1, ops2)

gaussian_elimination_col_ops(a, n) == GaussRow(a, n, 0, <<>>)

(* binary_LLT_decomposition(a): for a symmetric a, the unit lower          *)
(* triangular L and the diagonal D with a + D = L L^T  (Lemma 7).          *)
RECURSIVE LEntry(_, _, _)
RECURSIVE LDot(_, _, _, _)
LEntry(a, r, k) ==
    IF r = k THEN 1
    ELSE IF r < k THEN 0
    ELSE XOR(a[r][k], LDot(a, r, k, k))

\* sum over k2 < upto of L[r][k2] * L[k][k2]
LDot(a, r, k, upto) ==
    IF upto = 0 THEN 0
    ELSE XOR(AND(LEntry(a, r, upto - 1), LEntry(a, k, upto - 1)),
             LDot(a, r, k, upto - 1))

binary_LLT_decomposition(a, n) ==
    LET L == [r \in Idx(n) |-> [k \in Idx(n) |-> LEntry(a, r, k)]]
        D == [r \in Idx(n) |-> [k \in Idx(n) |->
                IF r = k THEN XOR(a[r][r], LDot(a, r, r, r + 1)) ELSE 0]]
    IN <<L, D>>

\* ------------------------------------------------------- circuits, labels
\* the qubit vectors the circuits are built over: n consecutive labels
\* starting at some shift, in their sorted order
QubitVectors ==
    {[k \in 1 .. n |-> sh + k - 1] : n \in 1 .. MaxQubits, sh \in {0, 1}}

\* tab.qubits_.left.at(Qubit(qb)): the index of a label
IndexOf(qubits, qb) == (CHOOSE k \in 1 .. Len(qubits) : qubits[k] = qb) - 1

\* every operand resolved to the index of the first one
ResolveArgsFirst(t, args) == [k \in 1 .. Len(args) |-> IndexOf(t.qubits_, args[1])]

\* lines 24-27: the operands of a command resolved to indices
ResolveArgs(t, args) == [k \in 1 .. Len(args) |-> IndexOf(t.qubits_, args[k])]

\* the commands a circuit over the labels of `qubits` can hold
Commands(qubits) ==
    LET L == {qubits[k] : k \in 1 .. Len(qubits)} IN
    {[type |-> ty, args |-> <<q>>] : ty \in GateTypes \ {"CX"}, q \in L}
      \cup {cx \in {[type |-> "CX", args |-> <<q, r>>] : q \in L, r \in L} :
                cx.args[1] # cx.args[2]}

\* circuit_to_tableau, as a fold over the commands of a circuit
RECURSIVE EndApplyAll(_, _)
EndApplyAll(t, coms) ==
    IF coms = <<>> THEN t
    ELSE EndApplyAll(
           apply_gate_at_end(t, Head(coms).type, ResolveArgs(t, Head(coms).args)),
           Tail(coms))

circuit_to_tableau(circ) ==
    EndApplyAll(CliffTableau(SetToSortedSeq(circ.qubits)), circ.gates)

\* rename_units: index k becomes the label qubits_ maps to k
rename_units(gates, qubits) ==
    [k \in 1 .. Len(gates) |->
        [type |-> gates[k].type,
         args |-> [a \in 1 .. Len(gates[k].args) |-> qubits[gates[k].args[a] + 1]]]]

\* -------------------------------------------------- step 1 column scan
\* leading_val_to_col as a function row -> column, NoCol when the row has
\* no entry
NoCol == -1

MapSize(lead, n) == Cardinality({r \in Idx(n) : lead[r] # NoCol})

(* lines 51-63 and 71-83: scan column k of echelon from row j down          *)
RECURSIVE ScanCol(_, _, _, _, _)
ScanCol(ech, lead, n, k, j) ==
    IF j = n THEN [echelon |-> ech, leading_val_to_col |-> lead]
    ELSE IF ech[j][k] = 1
         THEN IF lead[j] = NoCol
              THEN [echelon |-> ech, leading_val_to_col |-> [lead EXCEPT ![j] = k]]
              ELSE ScanCol(ColXor(ech, n, k, lead[j]), lead, n, k, j + 1)
         ELSE ScanCol(ech, lead, n, k, j + 1)

\* ------------------------------------------- what each step emits/applies
\* one front application
FrontOp(op, qbs) == [op |-> op, qbs |-> qbs]

Gate(type, args) == [type |-> type, args |-> args]

\* step 1 naming the gate after what it front-applies, the inverse of V
Step1EmitVdg(k) ==
    [ gate |-> Gate("Vdg", <<k>>),
      front |-> <<FrontOp("V", <<k>>), FrontOp("V", <<k>>), FrontOp("V", <<k>>)>> ]

\* lines 66-69: step 1 emits V and front-applies V three times
Step1Emit(k) ==
    [ gate |-> Gate("V", <<k>>),
      front |-> <<FrontOp("V", <<k>>), FrontOp("V", <<k>>), FrontOp("V", <<k>>)>> ]

\* the emitted CX with control and target exchanged
CXEmitSwapped(qbs) ==
    [ gate |-> Gate("CX", <<qbs[2], qbs[1]>>),
      front |-> <<FrontOp("CX", <<qbs[1], qbs[2]>>)>> ]

\* lines 95-96, 127-128, 155-156, 197-198, 223-224: CX, front-applied once
CXEmit(qbs) ==
    [ gate |-> Gate("CX", <<qbs[1], qbs[2]>>),
      front |-> <<FrontOp("CX", <<qbs[1], qbs[2]>>)>> ]

\* lines 109-112, 141-144, 180-183, 210-213: S, front-applied three times
SEmit(k) ==
    [ gate |-> Gate("S", <<k>>),
      front |-> <<FrontOp("S", <<k>>), FrontOp("S", <<k>>), FrontOp("S", <<k>>)>> ]

\* H front-applied as a bare V
HEmitBareV(k) ==
    [ gate |-> Gate("H", <<k>>), front |-> <<FrontOp("V", <<k>>)>> ]

\* lines 165-168: H, front-applied as S, V, S
HEmit(k) ==
    [ gate |-> Gate("H", <<k>>),
      front |-> <<FrontOp("S", <<k>>), FrontOp("V", <<k>>), FrontOp("S", <<k>>)>> ]

\* Z front-applied as a single S
ZEmitOnce(k) ==
    [ gate |-> Gate("Z", <<k>>), front |-> <<FrontOp("S", <<k>>)>> ]

\* lines 232-234: Z, front-applied as S, S
ZEmit(k) ==
    [ gate |-> Gate("Z", <<k>>),
      front |-> <<FrontOp("S", <<k>>), FrontOp("S", <<k>>)>> ]

\* the second correction emitted as Y
XEmitAsY(k) ==
    [ gate |-> Gate("Y", <<k>>),
      front |-> <<FrontOp("V", <<k>>), FrontOp("V", <<k>>)>> ]

\* lines 237-239: X, front-applied as V, V
XEmit(k) ==
    [ gate |-> Gate("X", <<k>>),
      front |-> <<FrontOp("V", <<k>>), FrontOp("V", <<k>>)>> ]

\* the front application named by a FrontOp
ApplyFront(t, f) ==
    CASE f.op = "S" -> apply_S_at_front(t, f.qbs[1])
      [] f.op = "V" -> apply_V_at_front(t, f.qbs[1])
      [] f.op = "CX" -> apply_CX_at_front(t, f.qbs[1], f.qbs[2])

\* line 34: tabl is a copy of the caller's tableau
CopyOf(t) == t

\* tabl bound to the caller's object instead of a copy of it
CallerAliased(callers, working) == working

\* lines 33-34: the caller's tableau is a const reference and tabl is a
\* distinct object, so a write to tabl leaves the caller's tableau as it was
CallerAfterWrite(callers, working) == callers

\* the test of line 84 written with < : never true
NotIndependentLess(lead, n, k) == MapSize(lead, n) < k

\* line 84: the test that raises the independence error
NotIndependent(lead, n, k) == MapSize(lead, n) = k

\* the test of line 64 written with >=
IndependentOfPreviousGeq(lead, n, k) == MapSize(lead, n) >= k

\* line 64: the column is independent of the previous columns
IndependentOfPrevious(lead, n, k) == MapSize(lead, n) > k

\* the reverse_iterator of steps 4 and 9: the k-th element from the end
FromEnd(ops, k) == ops[Len(ops) - k]

\* ------------------------------------------------ hand-constructed inputs
\* all rows of n bits
BitRows(n) == [Idx(n) -> {0, 1}]

(* Tableaux written down by a caller whose stabilizer rows a and b are the *)
(* same Pauli string; everything else is as in the identity tableau.       *)
DuplicateStabTableaux ==
    UNION {
      { [ CliffTableau([k \in 1 .. n |-> k - 1]) EXCEPT
            !.zpauli_x[a] = rx, !.zpauli_x[b] = rx,
            !.zpauli_z[a] = rz, !.zpauli_z[b] = rz,
            !.zpauli_phase[a] = ph, !.zpauli_phase[b] = ph ] :
          rx \in BitRows(n), rz \in BitRows(n), ph \in {0, 1},
          a \in Idx(n), b \in Idx(n) }
      : n \in 2 .. MaxQubits }

HasDuplicateStab(t) ==
    \E a \in Idx(t.size_) : \E b \in Idx(t.size_) :
        /\ a # b
        /\ t.zpauli_x[a] = t.zpauli_x[b]
        /\ t.zpauli_z[a] = t.zpauli_z[b]

\* ------------------------------------------------------------------ state
VARIABLES
    tab,                 \* the tableau the caller holds (circuit_to_tableau's tab)
    origin,              \* "circuit": tab is being/was built from a circuit; "hand"
    ncom,                \* commands of the input circuit consumed so far
    pc,                  \* position in circuit_to_tableau / tableau_to_circuit
    tabl,                \* tableau_to_circuit's working copy
    size,
    c,                   \* the circuit under construction (gates over indices)
    blocks,              \* history: the step (1..11, 12 = delayed) of each gate of c
    echelon,
    leading_val_to_col,
    i,                   \* the running loop index
    col_ops,             \* the range of the loops of steps 2, 6 and 11
    zp_z_llt,
    m_to_i,
    xp_z_llt,
    n_to_i,
    fq,                  \* front applications of the last emitted gate not yet done
    result               \* what tableau_to_circuit returned or threw

vars == <<tab, origin, ncom, pc, tabl, size, c, blocks, echelon, leading_val_to_col,
          i, col_ops, zp_z_llt, m_to_i, xp_z_llt, n_to_i, fq, result>>

None == <<>>

locals == <<tabl, size, c, blocks, echelon, leading_val_to_col, i, col_ops,
            zp_z_llt, m_to_i, xp_z_llt, n_to_i, fq, result>>

Init ==
    /\ \/ /\ tab \in {CliffTableau(qbs) : qbs \in QubitVectors}
          /\ origin = "circuit"
          /\ pc = "build"
       \/ /\ tab \in {t \in DuplicateStabTableaux : HasDuplicateStab(t)}
          /\ origin = "hand"
          /\ pc = "call"
    /\ ncom = 0
    /\ tabl = None /\ size = 0 /\ c = <<>> /\ blocks = <<>>
    /\ echelon = None /\ leading_val_to_col = None /\ i = 0
    /\ col_ops = <<>> /\ zp_z_llt = None /\ m_to_i = <<>>
    /\ xp_z_llt = None /\ n_to_i = <<>> /\ fq = <<>>
    /\ result = [status |-> "none"]

\* ----------------------------------------------------- circuit_to_tableau
\* lines 23-29: one command of the circuit is end-applied
EndApply ==
    /\ pc = "build"
    /\ ncom < MaxGates
    /\ \E com \in Commands(tab.qubits_) :
          tab' = apply_gate_at_end(tab, com.type, ResolveArgs(tab, com.args))
    /\ ncom' = ncom + 1
    /\ UNCHANGED <<origin, pc>>
    /\ UNCHANGED locals

\* line 30: the circuit is exhausted and the tableau is returned
BuildReturn ==
    /\ pc = "build"
    /\ pc' = "call"
    /\ ncom' = 0
    /\ UNCHANGED <<tab, origin>>
    /\ UNCHANGED locals

\* ----------------------------------------------------- tableau_to_circuit
inputs == <<tab, origin, ncom>>

\* c.add_op of a step, with the front applications that follow it queued
Emit(e, blk) ==
    /\ c' = Append(c, e.gate)
    /\ blocks' = Append(blocks, blk)
    /\ fq' = e.front

NoEmit == UNCHANGED <<c, blocks, fq>>

\* lines 34-49: copy the tableau, create the empty circuit, start step 1
Call ==
    /\ pc = "call"
    /\ tabl' = CopyOf(tab)
    /\ size' = tab.size_
    /\ c' = <<>> /\ blocks' = <<>> /\ fq' = <<>>
    /\ echelon' = tab.zpauli_x
    /\ leading_val_to_col' = [r \in Idx(tab.size_) |-> NoCol]
    /\ i' = 0
    /\ pc' = "step1"
    /\ UNCHANGED <<col_ops, zp_z_llt, m_to_i, xp_z_llt, n_to_i, result>>
    /\ UNCHANGED inputs

\* every single front application of the last emitted gate
FrontApply ==
    /\ pc \notin {"build", "call", "done", "error"}
    /\ fq # <<>>
    /\ tabl' = ApplyFront(tabl, Head(fq))
    /\ fq' = Tail(fq)
    /\ tab' = CallerAfterWrite(tab, tabl')
    /\ UNCHANGED <<origin, ncom, pc, size, c, blocks, echelon, leading_val_to_col,
                   i, col_ops, zp_z_llt, m_to_i, xp_z_llt, n_to_i, result>>

\* lines 50-69: column i is scanned; a dependent column gets a V
Step1Scan ==
    /\ pc = "step1" /\ fq = <<>> /\ i < size
    /\ LET r == ScanCol(echelon, leading_val_to_col, size, i, 0) IN
         /\ echelon' = r.echelon
         /\ leading_val_to_col' = r.leading_val_to_col
         /\ IF IndependentOfPrevious(r.leading_val_to_col, size, i)
            THEN /\ i' = i + 1
                 /\ NoEmit
                 /\ UNCHANGED pc
            ELSE /\ Emit(Step1Emit(i), 1)
                 /\ pc' = "step1_retry"
                 /\ UNCHANGED i
    /\ UNCHANGED <<tabl, size, col_ops, zp_z_llt, m_to_i, xp_z_llt, n_to_i, result>>
    /\ UNCHANGED inputs

\* lines 70-85: the column is retried with the stabilizer-Z column
Step1Retry ==
    /\ pc = "step1_retry" /\ fq = <<>>
    /\ LET r == ScanCol(SetCol(echelon, size, i, Col(tabl.zpauli_z, size, i)),
                        leading_val_to_col, size, i, 0) IN
         /\ echelon' = r.echelon
         /\ leading_val_to_col' = r.leading_val_to_col
         /\ IF NotIndependent(r.leading_val_to_col, size, i)
            THEN /\ pc' = "error"
                 /\ result' = [status |-> "error",
                               what |-> "Stabilisers are not mutually independent"]
                 /\ UNCHANGED i
            ELSE /\ pc' = "step1"
                 /\ i' = i + 1
                 /\ UNCHANGED result
    /\ NoEmit
    /\ UNCHANGED <<tabl, size, col_ops, zp_z_llt, m_to_i, xp_z_llt, n_to_i>>
    /\ UNCHANGED inputs

\* lines 93-94: the range of step 2 is computed once
Step2Begin ==
    /\ pc = "step1" /\ fq = <<>> /\ i = size
    /\ col_ops' = gaussian_elimination_col_ops(tabl.zpauli_x, size)
    /\ i' = 0
    /\ pc' = "step2"
    /\ NoEmit
    /\ UNCHANGED <<tabl, size, echelon, leading_val_to_col, zp_z_llt, m_to_i,
                   xp_z_llt, n_to_i, result>>
    /\ UNCHANGED inputs

\* lines 93-97
Step2 ==
    /\ pc = "step2" /\ fq = <<>> /\ i < Len(col_ops)
    /\ Emit(CXEmit(col_ops[i + 1]), 2)
    /\ i' = i + 1
    /\ UNCHANGED <<pc, tabl, size, echelon, leading_val_to_col, col_ops, zp_z_llt,
                   m_to_i, xp_z_llt, n_to_i, result>>
    /\ UNCHANGED inputs

\* lines 105-106
Step3Begin ==
    /\ pc = "step2" /\ fq = <<>> /\ i = Len(col_ops)
    /\ zp_z_llt' = binary_LLT_decomposition(tabl.zpauli_z, size)
    /\ i' = 0
    /\ pc' = "step3"
    /\ NoEmit
    /\ UNCHANGED <<tabl, size, echelon, leading_val_to_col, col_ops, m_to_i,
                   xp_z_llt, n_to_i, result>>
    /\ UNCHANGED inputs

\* lines 107-114
Step3 ==
    /\ pc = "step3" /\ fq = <<>> /\ i < size
    /\ IF zp_z_llt[2][i][i] = 1 THEN Emit(SEmit(i), 3) ELSE NoEmit
    /\ i' = i + 1
    /\ UNCHANGED <<pc, tabl, size, echelon, leading_val_to_col, col_ops, zp_z_llt,
                   m_to_i, xp_z_llt, n_to_i, result>>
    /\ UNCHANGED inputs

\* lines 122-123
Step4Begin ==
    /\ pc = "step3" /\ fq = <<>> /\ i = size
    /\ m_to_i' = gaussian_elimination_col_ops(zp_z_llt[1], size)
    /\ i' = 0
    /\ pc' = "step4"
    /\ NoEmit
    /\ UNCHANGED <<tabl, size, echelon, leading_val_to_col, col_ops, zp_z_llt,
                   xp_z_llt, n_to_i, result>>
    /\ UNCHANGED inputs

\* lines 124-129: m_to_i replayed from its end
Step4 ==
    /\ pc = "step4" /\ fq = <<>> /\ i < Len(m_to_i)
    /\ Emit(CXEmit(FromEnd(m_to_i, i)), 4)
    /\ i' = i + 1
    /\ UNCHANGED <<pc, tabl, size, echelon, leading_val_to_col, col_ops, zp_z_llt,
                   m_to_i, xp_z_llt, n_to_i, result>>
    /\ UNCHANGED inputs

\* line 140: the loop of step 5 starts
Step5Begin ==
    /\ pc = "step4" /\ fq = <<>> /\ i = Len(m_to_i)
    /\ i' = 0
    /\ pc' = "step5"
    /\ NoEmit
    /\ UNCHANGED <<tabl, size, echelon, leading_val_to_col, col_ops, zp_z_llt,
                   m_to_i, xp_z_llt, n_to_i, result>>
    /\ UNCHANGED inputs

\* lines 140-145
Step5 ==
    /\ pc = "step5" /\ fq = <<>> /\ i < size
    /\ Emit(SEmit(i), 5)
    /\ i' = i + 1
    /\ UNCHANGED <<pc, tabl, size, echelon, leading_val_to_col, col_ops, zp_z_llt,
                   m_to_i, xp_z_llt, n_to_i, result>>
    /\ UNCHANGED inputs

\* lines 153-154
Step6Begin ==
    /\ pc = "step5" /\ fq = <<>> /\ i = size
    /\ col_ops' = gaussian_elimination_col_ops(tabl.zpauli_x, size)
    /\ i' = 0
    /\ pc' = "step6"
    /\ NoEmit
    /\ UNCHANGED <<tabl, size, echelon, leading_val_to_col, zp_z_llt, m_to_i,
                   xp_z_llt, n_to_i, result>>
    /\ UNCHANGED inputs

\* lines 153-157
Step6 ==
    /\ pc = "step6" /\ fq = <<>> /\ i < Len(col_ops)
    /\ Emit(CXEmit(col_ops[i + 1]), 6)
    /\ i' = i + 1
    /\ UNCHANGED <<pc, tabl, size, echelon, leading_val_to_col, col_ops, zp_z_llt,
                   m_to_i, xp_z_llt, n_to_i, result>>
    /\ UNCHANGED inputs

\* line 164
Step7Begin ==
    /\ pc = "step6" /\ fq = <<>> /\ i = Len(col_ops)
    /\ i' = 0
    /\ pc' = "step7"
    /\ NoEmit
    /\ UNCHANGED <<tabl, size, echelon, leading_val_to_col, col_ops, zp_z_llt,
                   m_to_i, xp_z_llt, n_to_i, result>>
    /\ UNCHANGED inputs

\* lines 164-169
Step7 ==
    /\ pc = "step7" /\ fq = <<>> /\ i < size
    /\ Emit(HEmit(i), 7)
    /\ i' = i + 1
    /\ UNCHANGED <<pc, tabl, size, echelon, leading_val_to_col, col_ops, zp_z_llt,
                   m_to_i, xp_z_llt, n_to_i, result>>
    /\ UNCHANGED inputs

\* lines 176-177
Step8Begin ==
    /\ pc = "step7" /\ fq = <<>> /\ i = size
    /\ xp_z_llt' = binary_LLT_decomposition(tabl.xpauli_z, size)
    /\ i' = 0
    /\ pc' = "step8"
    /\ NoEmit
    /\ UNCHANGED <<tabl, size, echelon, leading_val_to_col, col_ops, zp_z_llt,
                   m_to_i, n_to_i, result>>
    /\ UNCHANGED inputs

\* lines 178-185
Step8 ==
    /\ pc = "step8" /\ fq = <<>> /\ i < size
    /\ IF xp_z_llt[2][i][i] = 1 THEN Emit(SEmit(i), 8) ELSE NoEmit
    /\ i' = i + 1
    /\ UNCHANGED <<pc, tabl, size, echelon, leading_val_to_col, col_ops, zp_z_llt,
                   m_to_i, xp_z_llt, n_to_i, result>>
    /\ UNCHANGED inputs

\* lines 192-193
Step9Begin ==
    /\ pc = "step8" /\ fq = <<>> /\ i = size
    /\ n_to_i' = gaussian_elimination_col_ops(xp_z_llt[1], size)
    /\ i' = 0
    /\ pc' = "step9"
    /\ NoEmit
    /\ UNCHANGED <<tabl, size, echelon, leading_val_to_col, col_ops, zp_z_llt,
                   m_to_i, xp_z_llt, result>>
    /\ UNCHANGED inputs

\* lines 194-199: n_to_i replayed from its end
Step9 ==
    /\ pc = "step9" /\ fq = <<>> /\ i < Len(n_to_i)
    /\ Emit(CXEmit(FromEnd(n_to_i, i)), 9)
    /\ i' = i + 1
    /\ UNCHANGED <<pc, tabl, size, echelon, leading_val_to_col, col_ops, zp_z_llt,
                   m_to_i, xp_z_llt, n_to_i, result>>
    /\ UNCHANGED inputs

\* line 209
Step10Begin ==
    /\ pc = "step9" /\ fq = <<>> /\ i = Len(n_to_i)
    /\ i' = 0
    /\ pc' = "step10"
    /\ NoEmit
    /\ UNCHANGED <<tabl, size, echelon, leading_val_to_col, col_ops, zp_z_llt,
                   m_to_i, xp_z_llt, n_to_i, result>>
    /\ UNCHANGED inputs

\* lines 209-214
Step10 ==
    /\ pc = "step10" /\ fq = <<>> /\ i < size
    /\ Emit(SEmit(i), 10)
    /\ i' = i + 1
    /\ UNCHANGED <<pc, tabl, size, echelon, leading_val_to_col, col_ops, zp_z_llt,
                   m_to_i, xp_z_llt, n_to_i, result>>
    /\ UNCHANGED inputs

\* lines 221-222
Step11Begin ==
    /\ pc = "step10" /\ fq = <<>> /\ i = size
    /\ col_ops' = gaussian_elimination_col_ops(tabl.xpauli_x, size)
    /\ i' = 0
    /\ pc' = "step11"
    /\ NoEmit
    /\ UNCHANGED <<tabl, size, echelon, leading_val_to_col, zp_z_llt, m_to_i,
                   xp_z_llt, n_to_i, result>>
    /\ UNCHANGED inputs

\* lines 221-225
Step11 ==
    /\ pc = "step11" /\ fq = <<>> /\ i < Len(col_ops)
    /\ Emit(CXEmit(col_ops[i + 1]), 11)
    /\ i' = i + 1
    /\ UNCHANGED <<pc, tabl, size, echelon, leading_val_to_col, col_ops, zp_z_llt,
                   m_to_i, xp_z_llt, n_to_i, result>>
    /\ UNCHANGED inputs

\* line 230
DelayedBegin ==
    /\ pc = "step11" /\ fq = <<>> /\ i = Len(col_ops)
    /\ i' = 0
    /\ pc' = "delayed_z"
    /\ NoEmit
    /\ UNCHANGED <<tabl, size, echelon, leading_val_to_col, col_ops, zp_z_llt,
                   m_to_i, xp_z_llt, n_to_i, result>>
    /\ UNCHANGED inputs

\* lines 231-235
DelayedZ ==
    /\ pc = "delayed_z" /\ fq = <<>> /\ i < size
    /\ IF tabl.xpauli_phase[i] = 1 THEN Emit(ZEmit(i), 12) ELSE NoEmit
    /\ pc' = "delayed_x"
    /\ UNCHANGED <<i, tabl, size, echelon, leading_val_to_col, col_ops, zp_z_llt,
                   m_to_i, xp_z_llt, n_to_i, result>>
    /\ UNCHANGED inputs

\* lines 236-240
DelayedX ==
    /\ pc = "delayed_x" /\ fq = <<>>
    /\ IF tabl.zpauli_phase[i] = 1 THEN Emit(XEmit(i), 12) ELSE NoEmit
    /\ pc' = "delayed_z"
    /\ i' = i + 1
    /\ UNCHANGED <<tabl, size, echelon, leading_val_to_col, col_ops, zp_z_llt,
                   m_to_i, xp_z_llt, n_to_i, result>>
    /\ UNCHANGED inputs

\* lines 246-254: the qubits are renamed and the circuit is returned
Return ==
    /\ pc = "delayed_z" /\ fq = <<>> /\ i = size
    /\ result' = [ status |-> "ok",
                   circuit |-> [ qubits |-> {tabl.qubits_[k] : k \in 1 .. size},
                                 gates |-> rename_units(c, tabl.qubits_) ] ]
    /\ pc' = "done"
    /\ NoEmit
    /\ UNCHANGED <<i, tabl, size, echelon, leading_val_to_col, col_ops, zp_z_llt,
                   m_to_i, xp_z_llt, n_to_i>>
    /\ UNCHANGED inputs

Next ==
    \/ EndApply \/ BuildReturn \/ Call \/ FrontApply
    \/ Step1Scan \/ Step1Retry
    \/ Step2Begin \/ Step2 \/ Step3Begin \/ Step3 \/ Step4Begin \/ Step4
    \/ Step5Begin \/ Step5 \/ Step6Begin \/ Step6 \/ Step7Begin \/ Step7
    \/ Step8Begin \/ Step8 \/ Step9Begin \/ Step9 \/ Step10Begin \/ Step10
    \/ Step11Begin \/ Step11 \/ DelayedBegin \/ DelayedZ \/ DelayedX \/ Return

Spec == Init /\ [][Next]_vars

\* ----------------------------------------------------------- properties
IsIdentity(t) ==
    /\ t.xpauli_x = Identity(t.size_) /\ t.xpauli_z = Zero(t.size_)
    /\ t.zpauli_x = Zero(t.size_) /\ t.zpauli_z = Identity(t.size_)
    /\ t.xpauli_phase = ZeroVec(t.size_) /\ t.zpauli_phase = ZeroVec(t.size_)

RECURSIVE Dot(_, _, _)
Dot(u, v, k) == IF k = 0 THEN 0 ELSE u[k - 1] * v[k - 1] + Dot(u, v, k - 1)

\* two generators (ax, az), (bx, bz) anticommute when their symplectic
\* product is 1
Anticommute(ax, az, bx, bz, n) == (Dot(ax, bz, n) + Dot(az, bx, n)) % 2 = 1

\* the symplectic-basis invariant of a tableau
Symplectic(t) ==
    LET n == t.size_ IN
    \A a \in Idx(n) :
        /\ \A b \in (a + 1) .. (n - 1) :
              /\ ~Anticommute(t.zpauli_x[a], t.zpauli_z[a],
                              t.zpauli_x[b], t.zpauli_z[b], n)
              /\ ~Anticommute(t.xpauli_x[a], t.xpauli_z[a],
                              t.xpauli_x[b], t.xpauli_z[b], n)
        /\ \A b \in Idx(n) :
              Anticommute(t.xpauli_x[a], t.xpauli_z[a],
                          t.zpauli_x[b], t.zpauli_z[b], n) <=> (a = b)

SameTableau(t, u) ==
    /\ t.xpauli_x = u.xpauli_x /\ t.xpauli_z = u.xpauli_z
    /\ t.zpauli_x = u.zpauli_x /\ t.zpauli_z = u.zpauli_z
    /\ t.xpauli_phase = u.xpauli_phase /\ t.zpauli_phase = u.zpauli_phase
    /\ t.size_ = u.size_ /\ t.qubits_ = u.qubits_

Returned == pc = "done" /\ result.status = "ok"

GateKinds(gates) == {gates[k].type : k \in 1 .. Len(gates)}

\* the gates of c emitted by step b, in emission order
BlockGates(b) ==
    LET RECURSIVE Pick(_)
        Pick(k) == IF k > Len(c) THEN <<>>
                   ELSE IF blocks[k] = b THEN <<c[k]>> \o Pick(k + 1)
                   ELSE Pick(k + 1)
    IN Pick(1)

\* C1: a tableau built from a gate sequence over {H,S,CX,X,Z,V} is always
\* synthesized without error, and re-simulating the returned circuit gives
\* a tableau equal to it in the four matrices, the two phase vectors, the
\* size and the qubit mapping.
C1_RoundTrip ==
    origin = "circuit" =>
        /\ pc # "error"
        /\ pc = "done" =>
             /\ result.status = "ok"
             /\ SameTableau(circuit_to_tableau(result.circuit), tab)

\* the lone CX on the first two qubits of a 2-qubit circuit was synthesized
C1_Witness ==
    /\ Returned /\ origin = "circuit" /\ tab.size_ = 2
    /\ tab = apply_gate_at_end(CliffTableau(tab.qubits_), "CX", <<0, 1>>)
    /\ "CX" \in GateKinds(result.circuit.gates)

\* C2 as stated: every gate of a returned circuit is one of H, S, CX, X, Z.
C2_Original ==
    Returned => GateKinds(result.circuit.gates) \subseteq {"H", "S", "CX", "X", "Z"}

\* C2 amended: every gate of a returned circuit is one of V, H, S, CX, X, Z;
\* V is what step 1 emits.
C2_Vocabulary ==
    Returned =>
        GateKinds(result.circuit.gates) \subseteq {"V", "H", "S", "CX", "X", "Z"}

\* a returned circuit that uses every one of the six kinds
C2_Witness ==
    Returned /\ GateKinds(result.circuit.gates) = {"V", "H", "S", "CX", "X", "Z"}

\* C3: a tableau with two identical stabilizer rows never gets past step 1:
\* the call ends in the independence error and returns no circuit.
C3_IndependenceFailure ==
    HasDuplicateStab(tab) =>
        /\ pc \in {"call", "step1", "step1_retry", "error"}
        /\ pc = "step1" => i < size
        /\ pc = "error" =>
             result = [status |-> "error",
                       what |-> "Stabilisers are not mutually independent"]
        /\ pc # "error" => result = [status |-> "none"]

\* both stabilizers are Z on qubit 0 (n = 2): the error was raised after
\* gates had already been emitted
C3_Witness ==
    /\ pc = "error" /\ result.status = "error" /\ c # <<>>
    /\ tab.size_ = 2
    /\ tab.zpauli_x = Zero(2)
    /\ tab.zpauli_z = [r \in Idx(2) |-> [k \in Idx(2) |-> IF k = 0 THEN 1 ELSE 0]]

\* C4: no step of tableau_to_circuit changes the tableau the caller passed.
C4_CallerUntouched == [][pc # "build" => tab' = tab]_vars

\* a call returned with its working copy consumed to the identity while
\* the caller's tableau is not the identity
C4_Witness == Returned /\ IsIdentity(tabl) /\ ~IsIdentity(tab)

IdentityInput1 == tab.size_ = 1 /\ IsIdentity(tab)

HInput1 ==
    /\ tab.size_ = 1
    /\ tab = apply_gate_at_end(CliffTableau(tab.qubits_), "H", <<0>>)

\* s is a subsequence of the kinds of gates, in order
RECURSIVE HasKindsInOrder(_, _)
HasKindsInOrder(gates, kinds) ==
    IF kinds = <<>> THEN TRUE
    ELSE IF gates = <<>> THEN FALSE
    ELSE IF Head(gates).type = Head(kinds)
         THEN HasKindsInOrder(Tail(gates), Tail(kinds))
         ELSE HasKindsInOrder(Tail(gates), kinds)

\* C5 as stated: the n = 1 identity tableau synthesizes to an empty gate
\* sequence.
C5_Original == (Returned /\ IdentityInput1) => result.circuit.gates = <<>>

\* C5 amended: the n = 1 identity tableau synthesizes to a non-empty gate
\* sequence that starts with the V of step 1 and holds the S of step 5, the
\* H of step 7 and the S of step 10, and that re-simulates to the identity.
C5_IdentityCase ==
    (Returned /\ IdentityInput1) =>
        /\ result.circuit.gates # <<>>
        /\ result.circuit.gates[1] = Gate("V", <<tab.qubits_[1]>>)
        /\ HasKindsInOrder(result.circuit.gates, <<"V", "S", "H", "S">>)
        /\ IsIdentity(circuit_to_tableau(result.circuit))

C5_Witness == Returned /\ IdentityInput1 /\ Len(result.circuit.gates) >= 4

\* C6 as stated: the n = 1 tableau of H synthesizes to exactly one gate.
C6_Original == (Returned /\ HInput1) => Len(result.circuit.gates) = 1

\* C6 amended: the n = 1 tableau of H synthesizes to more than one gate,
\* among them the S of step 5, the H of step 7 and the S of step 10 in this
\* order, and the sequence is equivalent to a single H: re-simulated it
\* gives the input tableau.
C6_SingleHadamard ==
    (Returned /\ HInput1) =>
        /\ Len(result.circuit.gates) >= 3
        /\ HasKindsInOrder(result.circuit.gates, <<"S", "H", "S">>)
        /\ \A k \in 1 .. Len(result.circuit.gates) :
              result.circuit.gates[k].args = <<tab.qubits_[1]>>
        /\ SameTableau(circuit_to_tableau(result.circuit), tab)

C6_Witness ==
    Returned /\ HInput1 /\ Cardinality({k \in 1 .. Len(c) : c[k].type = "H"}) = 1

\* C8: for a symplectic input, the working tableau at the end of the
\* delayed-correction pass is the identity tableau.
C8_ConsumedToIdentity ==
    (pc \in {"delayed_z", "done"} /\ i = size /\ fq = <<>> /\ Symplectic(tab))
        => IsIdentity(tabl)

\* the delayed pass ended after emitting both a Z and an X
C8_Witness ==
    /\ pc = "delayed_z" /\ i = size /\ fq = <<>>
    /\ {"Z", "X"} \subseteq GateKinds(BlockGates(12))
    /\ IsIdentity(tabl)

\* C9: every end application of circuit_to_tableau and every single front
\* application of tableau_to_circuit on a symplectic input leaves a
\* symplectic basis, the size and the qubit mapping.
C9_SymplecticKept ==
    origin = "circuit" =>
        /\ pc \in {"build", "call"} =>
             /\ Symplectic(tab)
             /\ tab.size_ = Len(tab.qubits_)
             /\ \E sh \in {0, 1} : tab.qubits_ = [k \in 1 .. tab.size_ |-> sh + k - 1]
        /\ pc \notin {"build", "call"} =>
             /\ Symplectic(tabl)
             /\ tabl.size_ = tab.size_
             /\ tabl.qubits_ = tab.qubits_

\* a tableau built with a CX end application, after the V front
\* applications of step 1 and a CX front application of step 9
C9_Witness ==
    /\ origin = "circuit" /\ pc = "step9" /\ fq = <<>> /\ i > 0
    /\ tabl # tab /\ tab.xpauli_x # Identity(tab.size_)
    /\ "V" \in GateKinds(c)

\* qubits of the S gates of a block, the flagged ones of a diagonal
FlaggedS(d) ==
    LET f == SetToSortedSeq({k \in Idx(size) : d[k][k] = 1})
    IN [k \in 1 .. Len(f) |-> Gate("S", <<f[k]>>)]

OnEach(type) == [k \in 1 .. size |-> Gate(type, <<k - 1>>)]

CountOf(gates, g) == Cardinality({k \in 1 .. Len(gates) : gates[k] = g})

\* C10: the gates are emitted block after block, in the order of the steps;
\* steps 2, 4, 6, 9, 11 emit only CX, steps 3 and 8 an S on each flagged
\* qubit, steps 5 and 10 one S on each qubit in index order, step 7 one H on
\* each qubit in index order, the delayed pass only Z and X, at most one of
\* each per qubit.
C10_BlockOrder ==
    /\ Len(blocks) = Len(c)
    /\ \A k \in 1 .. (Len(blocks) - 1) : blocks[k] <= blocks[k + 1]
    /\ Returned =>
         /\ GateKinds(BlockGates(1)) \subseteq {"V"}
         /\ \A b \in {2, 4, 6, 9, 11} : GateKinds(BlockGates(b)) \subseteq {"CX"}
         /\ BlockGates(3) = FlaggedS(zp_z_llt[2])
         /\ BlockGates(5) = OnEach("S")
         /\ BlockGates(7) = OnEach("H")
         /\ BlockGates(8) = FlaggedS(xp_z_llt[2])
         /\ BlockGates(10) = OnEach("S")
         /\ GateKinds(BlockGates(12)) \subseteq {"Z", "X"}
         /\ \A q \in Idx(size) :
              /\ CountOf(BlockGates(12), Gate("Z", <<q>>)) <= 1
              /\ CountOf(BlockGates(12), Gate("X", <<q>>)) <= 1

\* a returned circuit with gates from every one of the twelve blocks
C10_Witness ==
    Returned /\ {blocks[k] : k \in 1 .. Len(blocks)} = 1 .. 12

====
